---- MODULE Spec2Model ----
(***************************************************************************)
(* SmartCanvasV: the finite-state controller of smart_canvas/core.py       *)
(* (CanvasCore and its states Startup, Idle, Filter, ShowPic) together     *)
(* with the element registry of smart_canvas/ui.py (class UI).             *)
(*                                                                         *)
(* Time.  Every tick is a value of time.time(); the model counts ticks in  *)
(* tenths of a second, so the deadlines tick + 0.1, tick + 1.5, tick + 4   *)
(* and tick + 10 of the code are tick + 1, + 15, + 40 and + 100.  The code *)
(* tests deadlines by the sign of a difference (d - tick < 0), which for   *)
(* IEEE doubles is the comparison d < tick.  Ticks are taken to be         *)
(* non-decreasing from one frame to the next; a frame comes either within  *)
(* the same tenth of a second as the one before or half a second later, so *)
(* every deadline of the code is met exactly by some tick.                 *)
(*                                                                         *)
(* Floats.  Idle.take_pic_cnt is a Python float (an IEEE-754 double) that  *)
(* is only ever changed by += 0.05 and -= 0.1.  The model keeps it exactly:*)
(* a double here is a sign and a magnitude counted in units of 2^-57, the  *)
(* magnitude held in two limbs of 29 bits, and every sum is rounded to 53  *)
(* significant bits, ties to even, as the hardware does.                   *)
(***************************************************************************)
EXTENDS Integers, Sequences, FiniteSets, TLC

(***************************************************************************)
(* IEEE-754 double arithmetic on multiples of 2^-57 below 4.0              *)
(***************************************************************************)
Limb == 2^29

\* magnitude comparison of two doubles
MagLt(a, b) == a.hi < b.hi \/ (a.hi = b.hi /\ a.lo < b.lo)

\* exact sum of two magnitudes
MagAdd(a, b) ==
  LET lo == a.lo + b.lo
  IN  [hi |-> a.hi + b.hi + (lo \div Limb), lo |-> lo % Limb]

\* exact difference of two magnitudes, a >= b
MagSub(a, b) ==
  LET lo == a.lo - b.lo
  IN  IF lo < 0 THEN [hi |-> a.hi - b.hi - 1, lo |-> lo + Limb]
                ELSE [hi |-> a.hi - b.hi, lo |-> lo]

\* how many low bits of a magnitude lie below its 53 significant bits
DropBits(hi) ==
  IF hi < 2^24 THEN 0
  ELSE IF hi < 2^25 THEN 1
  ELSE IF hi < 2^26 THEN 2
  ELSE IF hi < 2^27 THEN 3
  ELSE IF hi < 2^28 THEN 4
  ELSE IF hi < 2^29 THEN 5
  ELSE 6

\* round a magnitude to 53 significant bits, to nearest, ties to even
RoundMag(m) ==
  LET q    == 2^DropBits(m.hi)
      r    == m.lo % q
      base == m.lo - r
      up   == (2 * r > q) \/ (2 * r = q /\ (base \div q) % 2 = 1)
      lo2  == IF up THEN base + q ELSE base
  IN  [hi |-> m.hi + (lo2 \div Limb), lo |-> lo2 % Limb]

FZero == [s |-> 1, hi |-> 0, lo |-> 0]

MkF(s, m) == IF m.hi = 0 /\ m.lo = 0 THEN FZero ELSE [s |-> s, hi |-> m.hi, lo |-> m.lo]

\* x + y in double arithmetic
FAdd(x, y) ==
  IF x.s = y.s THEN MkF(x.s, RoundMag(MagAdd(x, y)))
  ELSE IF MagLt(x, y) THEN MkF(y.s, RoundMag(MagSub(y, x)))
  ELSE MkF(x.s, RoundMag(MagSub(x, y)))

FNeg(x) == MkF(0 - x.s, x)

\* x - y in double arithmetic
FSub(x, y) == FAdd(x, FNeg(y))

\* x < y
FLt(x, y) ==
  IF x.s # y.s THEN x.s < y.s
  ELSE IF x.s = 1 THEN MagLt(x, y) ELSE MagLt(y, x)

FLe(x, y) == ~FLt(y, x)

\* the literals of core.py and ui.py
F0_05 == [s |-> 1, hi |-> 13421772, lo |-> 429496730]
F0_1  == [s |-> 1, hi |-> 26843545, lo |-> 322122548]
F1_0  == [s |-> 1, hi |-> 2^28, lo |-> 0]

(***************************************************************************)
(* Bounds of the model and the constants of the program                    *)
(***************************************************************************)
\* the largest tick a frame is stamped with
MaxTick == 260
\* how many samples other than five fingers one Idle instance is given
MaxOther == 2
\* how many distinct frames the channel yields
NumFrames == 2
\* how many filters the carousel holds
NumFilters == 2
\* the value of time.time() when the controller is constructed
StartTick == 1
\* up to where the frames dispatched after stop() are counted
MaxAfterStop == 2

\* tick + 0.1, tick + 1.5, tick + 4 and tick + 10, in tenths of a second
SampleInterval == 1
RotateCooldown == 15
CountdownTime == 40
ShowImageTime == 100

Frames == {<<"raw", n>> : n \in 1..NumFrames}
\* out_frame and filtered_frame before anything is published
NoFrame == <<>>
\* what the classifier answers: no hand, two fingers, five fingers
FingerCounts == {0, 2, 5}
\* by how much time.time() moves on between two frames: the next frame comes
\* within the same tenth of a second, or half a second later
Steps == {0, 5}

(***************************************************************************)
(* ui.py, class UI: the registry of named elements.  A UI value is a       *)
(* record: elements (the names created), texts (name -> text set),         *)
(* visible (name -> flag), scale (name -> Progressbar._scale), err (a      *)
(* KeyError was raised and not caught), log (the commands issued during    *)
(* the current update, in order).  A command issued after a KeyError is    *)
(* never reached.                                                          *)
(***************************************************************************)
UI_new ==
  [elements |-> {}, texts |-> <<>>, visible |-> <<>>, scale |-> <<>>,
   err |-> FALSE, log |-> <<>>]

Put(f, k, v) == [x \in (DOMAIN f) \cup {k} |-> IF x = k THEN v ELSE f[x]]

Logged(u, op, name) == [u EXCEPT !.log = Append(@, <<op, name>>)]

UI_create_text(u, name) ==
  IF u.err THEN u
  ELSE [Logged(u, "create_text", name) EXCEPT
          !.elements = @ \cup {name}, !.visible = Put(@, name, FALSE)]

UI_create_progressbar(u, name) ==
  IF u.err THEN u
  ELSE [Logged(u, "create_progressbar", name) EXCEPT
          !.elements = @ \cup {name}, !.visible = Put(@, name, TRUE),
          !.scale = Put(@, name, FZero)]

\* UI_set_text that skips an unknown name instead of raising
UI_set_text_silent(u, name, text) ==
  IF u.err THEN u
  ELSE IF name \notin u.elements THEN Logged(u, "set_text", name)
  ELSE [Logged(u, "set_text", name) EXCEPT !.texts = Put(@, name, text)]

UI_set_text(u, name, text) ==
  IF u.err THEN u
  ELSE IF name \notin u.elements THEN [Logged(u, "set_text", name) EXCEPT !.err = TRUE]
  ELSE [Logged(u, "set_text", name) EXCEPT !.texts = Put(@, name, text)]

\* Progressbar.scale setter: a negative value is stored as 0.0
ScaleSetter(value) == IF FLt(value, FZero) THEN FZero ELSE value

UI_set_prog(u, name, value) ==
  IF u.err THEN u
  ELSE IF name \notin u.elements THEN [Logged(u, "set_prog", name) EXCEPT !.err = TRUE]
  ELSE [Logged(u, "set_prog", name) EXCEPT !.scale = Put(@, name, ScaleSetter(value))]

\* show and hide walk their names in order and raise at the first unknown one
RECURSIVE SetVisible(_, _, _, _)
SetVisible(u, op, names, flag) ==
  IF u.err \/ names = <<>> THEN u
  ELSE IF Head(names) \notin u.elements
       THEN [Logged(u, op, Head(names)) EXCEPT !.err = TRUE]
  ELSE SetVisible([Logged(u, op, Head(names)) EXCEPT !.visible = Put(@, Head(names), flag)],
                  op, Tail(names), flag)

UI_show(u, names) == SetVisible(u, "show", names, TRUE)

UI_hide(u, names) == SetVisible(u, "hide", names, FALSE)

(***************************************************************************)
(* core.py: the controller and its states                                  *)
(***************************************************************************)
VARIABLES
  pc,                     \* where CanvasCore.process stands: "test" (the while
                          \* condition), "get" (blocked in q_consumer.get()),
                          \* "done" (the loop has ended), "dead" (an exception
                          \* left process and ended the thread)
  stopped,                \* CanvasCore.stopped
  tick,                   \* CanvasCore.tick
  out_frame,              \* CanvasCore.out_frame
  filtered_frame,         \* CanvasCore.filtered_frame
  state,                  \* the class of CanvasCore._state
  filters,                \* the carousel's current index
  ui,                     \* the UI singleton
  take_pic_cnt,           \* Idle.take_pic_cnt
  change_filter_time,     \* Idle.change_filter_time
  finger_frame_interval,  \* Idle.finger_frame_interval
  countdown_time,         \* Filter.countdown_time
  show_image_time,        \* ShowPic.show_image_time
  \* history, read by the properties only
  last,                   \* what the latest update did
  entered,                \* the tick at which the active state was entered
  nSamples,               \* sampled updates of the current Idle instance
  others,                 \* how many of them did not count five fingers
  lastAdvance,            \* tick of the latest carousel advance, -1 if none
  advances,               \* how many carousel advances so far, counted up to 2
  applied,                \* calls of apply_filter by the current Filter instance
  setups,                 \* how often Startup.enter has run
  afterStop               \* frames dispatched since stop() was called, counted
                          \* up to MaxAfterStop

vars ==
  <<pc, stopped, tick, out_frame, filtered_frame, state, filters, ui,
    take_pic_cnt, change_filter_time, finger_frame_interval, countdown_time,
    show_image_time, last, entered, nSamples, others, lastAdvance, advances,
    applied, setups, afterStop>>

\* the fields of the controller and of its state instances
ctl ==
  <<state, filters, filtered_frame, take_pic_cnt, change_filter_time,
    finger_frame_interval, countdown_time, show_image_time>>

\* FilterCarousel.current_name, as formatted into the filter_name label
FilterLabel(i) == <<"Current filter is", i>>

\* FilterCarousel.next_filter: cyclic
next_filter(i) == (i + 1) % NumFilters

\* FilterCarousel.current_filter applied to the masked frame
current_filter(i, masked) == <<"filtered", i, masked>>

\* cv2.bitwise_and(frame, frame, mask = fg_masker.apply(frame))
masked_frame(frame) == <<"masked", frame>>

\* '{}'.format(int(seconds)) for the values a countdown can show
IntFormat(n) ==
  IF n = 0 THEN "0" ELSE IF n = 1 THEN "1" ELSE IF n = 2 THEN "2"
  ELSE IF n = 3 THEN "3" ELSE "4"

\* int(countdown_time - tick) for a positive difference: whole seconds
WholeSeconds(d) == d \div 10

NoEvent ==
  [state |-> "none", frame |-> NoFrame, sampled |-> FALSE, fc |-> -1,
   rotated |-> FALSE, applied |-> FALSE, failed |-> "no"]

(* Startup.enter *)
Startup_enter(u) ==
  LET u1 == UI_create_text(u, "help_1")
      u2 == UI_create_text(u1, "help_2")
      u3 == UI_create_text(u2, "countdown")
      u4 == UI_create_text(u3, "filter_name")
      u5 == UI_set_text(u4, "countdown", "0")
      u6 == UI_set_text(u5, "help_1", "Show 5 fingers to take a picture!")
      u7 == UI_set_text(u6, "help_2", "Show 2 fingers to change filter")
      u8 == UI_set_text(u7, "filter_name", FilterLabel(filters))
  IN  UI_create_progressbar(u8, "bar")

\* Idle_enter without the reset of the progress bar
Idle_enter_noreset(u) == UI_show(u, <<"help_1", "help_2", "filter_name", "bar">>)

(* Idle.enter *)
Idle_enter(u) ==
  UI_set_prog(UI_show(u, <<"help_1", "help_2", "filter_name", "bar">>), "bar", FZero)

\* Filter_enter naming the countdown text by a name never created
Filter_enter_typo(u) ==
  UI_show(UI_set_text(UI_hide(u, <<"help_1", "help_2", "filter_name", "bar">>),
                      "count_down", "3"),
          <<"countdown">>)

(* Filter.enter: the UI commands, and the deadline it arms *)
Filter_enter(u) ==
  UI_show(UI_set_text(UI_hide(u, <<"help_1", "help_2", "filter_name", "bar">>),
                      "countdown", "3"),
          <<"countdown">>)

Filter_deadline(t) == t + CountdownTime

(* ShowPic.enter *)
ShowPic_enter(u) == UI_hide(u, <<"countdown">>)

\* ShowPic_deadline arming twice the display time
ShowPic_deadline_twice(t) == t + ShowImageTime + ShowImageTime

ShowPic_deadline(t) == t + ShowImageTime

(* CanvasCore.__init__: the state after construction, Startup entered *)
Init ==
  /\ pc = "test"
  /\ stopped = FALSE
  /\ tick = StartTick
  /\ out_frame = NoFrame
  /\ filtered_frame = NoFrame
  /\ state = "Startup"
  /\ filters = 0
  /\ ui = Startup_enter(UI_new)
  /\ take_pic_cnt = FZero
  /\ change_filter_time = 0
  /\ finger_frame_interval = 0
  /\ countdown_time = 0
  /\ show_image_time = 0
  /\ last = NoEvent
  /\ entered = StartTick
  /\ nSamples = 0
  /\ others = 0
  /\ lastAdvance = -1
  /\ advances = 0
  /\ applied = 0
  /\ setups = 1
  /\ afterStop = 0

(***************************************************************************)
(* CanvasCore.process, CanvasCore.stop                                     *)
(***************************************************************************)
\* LoopTest as `while True`: the flag is never looked at
LoopTest_unchecked ==
  /\ pc = "test"
  /\ pc' = "get"
  /\ UNCHANGED <<stopped, tick, out_frame, ui, last, entered, nSamples, others,
                 lastAdvance, advances, applied, setups, afterStop>>
  /\ UNCHANGED <<state, filters, filtered_frame, take_pic_cnt, change_filter_time,
                 finger_frame_interval, countdown_time, show_image_time>>

\* the while condition: leave the loop when stopped, else block in get()
LoopTest ==
  /\ pc = "test"
  /\ pc' = IF stopped THEN "done" ELSE "get"
  /\ UNCHANGED <<stopped, tick, out_frame, ui, last, entered, nSamples, others,
                 lastAdvance, advances, applied, setups, afterStop>>
  /\ UNCHANGED ctl

\* Stop as a call that ends the thread at once instead of setting the flag only
Stop_preempts ==
  /\ ~stopped
  /\ stopped' = TRUE
  /\ pc' = "done"
  /\ UNCHANGED <<tick, out_frame, ui, last, entered, nSamples, others,
                 lastAdvance, advances, applied, setups, afterStop>>
  /\ UNCHANGED ctl

\* stop(), called from another thread at any moment
Stop ==
  /\ ~stopped
  /\ stopped' = TRUE
  /\ UNCHANGED <<pc, tick, out_frame, ui, last, entered, nSamples, others,
                 lastAdvance, advances, applied, setups, afterStop>>
  /\ UNCHANGED ctl

\* q_consumer.get() yields a frame and the loop stamps the tick
Dispatch(t) ==
  /\ pc = "get"
  /\ t <= MaxTick
  /\ tick' = t
  /\ afterStop' = IF stopped /\ afterStop < MaxAfterStop THEN afterStop + 1 ELSE afterStop
  /\ UNCHANGED stopped

\* the commands of one update start a fresh log
Begin(u) == [u EXCEPT !.log = <<>>]

\* an exception that leaves update leaves process: the thread ends.  Nothing
\* catches a KeyError of the UI either; the assignments that follow the raising
\* command in the same update are not modelled as skipped.
PcAfter(u, failed) == IF u.err \/ failed # "no" THEN "dead" ELSE "test"

(***************************************************************************)
(* Startup.update                                                          *)
(***************************************************************************)
Startup_next == "Idle"

Startup_update(frame, t) ==
  /\ state = "Startup"
  /\ Dispatch(t)
  /\ state' = Startup_next
  /\ setups' = IF state' = "Startup" THEN setups + 1 ELSE setups
  /\ take_pic_cnt' = FZero
  /\ change_filter_time' = 0
  /\ finger_frame_interval' = 0
  /\ ui' = IF state' = "Startup" THEN Startup_enter(Begin(ui)) ELSE Idle_enter(Begin(ui))
  /\ pc' = PcAfter(ui', "no")
  /\ entered' = t
  /\ nSamples' = 0
  /\ others' = 0
  /\ last' = [NoEvent EXCEPT !.state = "Startup"]
  /\ UNCHANGED <<out_frame, filtered_frame, filters, countdown_time, show_image_time,
                 lastAdvance, advances, applied>>

(***************************************************************************)
(* Idle.update                                                             *)
(***************************************************************************)
\* the 10 Hz gate: the sample deadline has passed
sample_due(deadline, t) == deadline - t < 0

\* update_filter_trigger with the two rates exchanged: + 0.1, - 0.05
update_filter_trigger_swapped(cnt, fc) ==
  IF fc = 5 THEN FAdd(cnt, F0_1)
  ELSE IF FLt(FZero, cnt) THEN FSub(cnt, F0_05)
  ELSE cnt

\* update_filter_trigger: the accumulator after a sample
update_filter_trigger(cnt, fc) ==
  IF fc = 5 THEN FAdd(cnt, F0_05)
  ELSE IF FLt(FZero, cnt) THEN FSub(cnt, F0_1)
  ELSE cnt

\* trigger_fires with the threshold written 0.1 instead of 1.0
trigger_fires_tenth(cnt) == FLe(F0_1, cnt)

\* update_filter_trigger: the accumulator has reached the threshold
trigger_fires(cnt) == FLe(F1_0, cnt)

\* carousel_rotates without the cooldown test
carousel_rotates_nocooldown(fc, t, cooldown, cnt) == fc = 2 /\ FLe(cnt, FZero)

\* update_filter_carousel: the carousel advances
carousel_rotates(fc, t, cooldown, cnt) ==
  fc = 2 /\ cooldown - t <= 0 /\ FLe(cnt, FZero)

\* update_filter_carousel: the cooldown an advance arms
rotate_deadline(t) == t + RotateCooldown

\* Idle_update_idle with the accumulator's decay outside the 10 Hz gate
Idle_update_idle_decay(frame, t) ==
  /\ state = "Idle"
  /\ Dispatch(t)
  /\ ~sample_due(finger_frame_interval, t)
  /\ out_frame' = frame
  /\ take_pic_cnt' = update_filter_trigger(take_pic_cnt, 0)
  /\ ui' = Begin(ui)
  /\ pc' = "test"
  /\ last' = [NoEvent EXCEPT !.state = "Idle", !.frame = frame]
  /\ UNCHANGED <<entered, nSamples, others, lastAdvance, advances, applied, setups>>
  /\ UNCHANGED <<state, filters, filtered_frame, change_filter_time,
                 finger_frame_interval, countdown_time, show_image_time>>

\* an update between two sample deadlines only publishes the frame
Idle_update_idle(frame, t) ==
  /\ state = "Idle"
  /\ Dispatch(t)
  /\ ~sample_due(finger_frame_interval, t)
  /\ out_frame' = frame
  /\ ui' = Begin(ui)
  /\ pc' = "test"
  /\ last' = [NoEvent EXCEPT !.state = "Idle", !.frame = frame]
  /\ UNCHANGED <<entered, nSamples, others, lastAdvance, advances, applied, setups>>
  /\ UNCHANGED ctl

\* a sampled update whose classifier call raises
Idle_update_raise(frame, t) ==
  /\ state = "Idle"
  /\ Dispatch(t)
  /\ sample_due(finger_frame_interval, t)
  /\ out_frame' = frame
  /\ ui' = Begin(ui)
  /\ pc' = PcAfter(ui', "classifier")
  /\ last' = [NoEvent EXCEPT !.state = "Idle", !.frame = frame, !.failed = "classifier"]
  /\ UNCHANGED <<entered, nSamples, others, lastAdvance, advances, applied, setups>>
  /\ UNCHANGED ctl

\* a sampled update whose classifier call returns fc
Idle_update_sample(frame, t, fc) ==
  /\ state = "Idle"
  /\ Dispatch(t)
  /\ sample_due(finger_frame_interval, t)
  /\ fc # 5 => others < MaxOther
  /\ out_frame' = frame
  /\ finger_frame_interval' = t + SampleInterval
  /\ LET cnt  == update_filter_trigger(take_pic_cnt, fc)
         fire == trigger_fires(cnt)
         u1   == IF fire THEN Filter_enter(Begin(ui)) ELSE Begin(ui)
         rot  == carousel_rotates(fc, t, change_filter_time, cnt)
         u2   == IF rot THEN UI_set_text(u1, "filter_name", FilterLabel(next_filter(filters)))
                        ELSE u1
     IN  /\ take_pic_cnt' = cnt
         /\ state' = IF fire THEN "Filter" ELSE "Idle"
         /\ countdown_time' = IF fire THEN Filter_deadline(t) ELSE countdown_time
         /\ entered' = IF fire THEN t ELSE entered
         /\ applied' = IF fire THEN 0 ELSE applied
         /\ change_filter_time' = IF rot THEN rotate_deadline(t) ELSE change_filter_time
         /\ filters' = IF rot THEN next_filter(filters) ELSE filters
         /\ lastAdvance' = IF rot THEN t ELSE lastAdvance
         /\ advances' = IF rot /\ advances < 2 THEN advances + 1 ELSE advances
         /\ ui' = UI_set_prog(u2, "bar", cnt)
         /\ last' = [NoEvent EXCEPT !.state = "Idle", !.frame = frame, !.sampled = TRUE,
                                    !.fc = fc, !.rotated = rot]
  /\ pc' = PcAfter(ui', "no")
  /\ nSamples' = nSamples + 1
  /\ others' = IF fc = 5 THEN others ELSE others + 1
  /\ UNCHANGED <<filtered_frame, show_image_time, setups>>

(***************************************************************************)
(* Filter.update, Filter.apply_filter                                      *)
(***************************************************************************)
\* countdown_running with >= instead of >
countdown_running_late(deadline, t) == deadline - t >= 0

\* the countdown is still running
countdown_running(deadline, t) == deadline - t > 0

\* apply_filter: mask the frame, then the carousel's current filter
apply_filter(frame) == current_filter(filters, masked_frame(frame))

Filter_update_count(frame, t) ==
  /\ state = "Filter"
  /\ Dispatch(t)
  /\ countdown_running(countdown_time, t)
  /\ ui' = UI_set_text(Begin(ui), "countdown", IntFormat(WholeSeconds(countdown_time - t)))
  /\ out_frame' = frame
  /\ pc' = PcAfter(ui', "no")
  /\ last' = [NoEvent EXCEPT !.state = "Filter", !.frame = frame]
  /\ UNCHANGED <<entered, nSamples, others, lastAdvance, advances, applied, setups>>
  /\ UNCHANGED ctl

\* the deadline has expired and the masker or the filter raises
Filter_update_raise(frame, t, who) ==
  /\ state = "Filter"
  /\ Dispatch(t)
  /\ ~countdown_running(countdown_time, t)
  /\ ui' = UI_hide(Begin(ui), <<"countdown">>)
  /\ pc' = PcAfter(ui', who)
  /\ applied' = applied + 1
  /\ last' = [NoEvent EXCEPT !.state = "Filter", !.frame = frame, !.failed = who]
  /\ UNCHANGED <<out_frame, entered, nSamples, others, lastAdvance, advances, setups>>
  /\ UNCHANGED ctl

\* the deadline has expired: run the pipeline once and show the picture
Filter_update_apply(frame, t) ==
  /\ state = "Filter"
  /\ Dispatch(t)
  /\ ~countdown_running(countdown_time, t)
  /\ ui' = ShowPic_enter(UI_hide(Begin(ui), <<"countdown">>))
  /\ filtered_frame' = apply_filter(frame)
  /\ applied' = applied + 1
  /\ state' = "ShowPic"
  /\ show_image_time' = ShowPic_deadline(t)
  /\ entered' = t
  /\ pc' = PcAfter(ui', "no")
  /\ last' = [NoEvent EXCEPT !.state = "Filter", !.frame = frame, !.applied = TRUE]
  /\ UNCHANGED <<out_frame, filters, take_pic_cnt, change_filter_time,
                 finger_frame_interval, countdown_time, nSamples, others, lastAdvance,
                 advances, setups>>

(***************************************************************************)
(* ShowPic.update                                                          *)
(***************************************************************************)
\* the picture has been shown long enough
show_over(deadline, t) == deadline - t < 0

\* ShowPic_next restarting the machine instead of idling
ShowPic_next_startup == "Startup"

ShowPic_next == "Idle"

\* ShowPic_update publishing the incoming frame, as Idle and Filter do
ShowPic_update_live(frame, t) ==
  /\ state = "ShowPic"
  /\ Dispatch(t)
  /\ out_frame' = frame
  /\ IF show_over(show_image_time, t)
     THEN /\ state' = ShowPic_next
          /\ setups' = IF state' = "Startup" THEN setups + 1 ELSE setups
          /\ take_pic_cnt' = FZero
          /\ change_filter_time' = 0
          /\ finger_frame_interval' = 0
          /\ ui' = IF state' = "Startup" THEN Startup_enter(Begin(ui))
                                        ELSE Idle_enter(Begin(ui))
          /\ entered' = t
          /\ nSamples' = 0
          /\ others' = 0
     ELSE /\ ui' = Begin(ui)
          /\ UNCHANGED <<state, setups, take_pic_cnt, change_filter_time,
                         finger_frame_interval, entered, nSamples, others>>
  /\ pc' = PcAfter(ui', "no")
  /\ last' = [NoEvent EXCEPT !.state = "ShowPic"]
  /\ UNCHANGED <<filtered_frame, filters, countdown_time, show_image_time, lastAdvance,
                 advances, applied>>

ShowPic_update(frame, t) ==
  /\ state = "ShowPic"
  /\ Dispatch(t)
  /\ out_frame' = filtered_frame
  /\ IF show_over(show_image_time, t)
     THEN /\ state' = ShowPic_next
          /\ setups' = IF state' = "Startup" THEN setups + 1 ELSE setups
          /\ take_pic_cnt' = FZero
          /\ change_filter_time' = 0
          /\ finger_frame_interval' = 0
          /\ ui' = IF state' = "Startup" THEN Startup_enter(Begin(ui))
                                        ELSE Idle_enter(Begin(ui))
          /\ entered' = t
          /\ nSamples' = 0
          /\ others' = 0
     ELSE /\ ui' = Begin(ui)
          /\ UNCHANGED <<state, setups, take_pic_cnt, change_filter_time,
                         finger_frame_interval, entered, nSamples, others>>
  /\ pc' = PcAfter(ui', "no")
  /\ last' = [NoEvent EXCEPT !.state = "ShowPic"]
  /\ UNCHANGED <<filtered_frame, filters, countdown_time, show_image_time, lastAdvance,
                 advances, applied>>

(***************************************************************************)
(* The system                                                              *)
(***************************************************************************)
Next ==
  \/ LoopTest
  \/ Stop
  \/ \E frame \in Frames, d \in Steps : Startup_update(frame, tick + d)
  \/ \E frame \in Frames, d \in Steps : Idle_update_idle(frame, tick + d)
  \/ \E frame \in Frames, d \in Steps : Idle_update_raise(frame, tick + d)
  \/ \E frame \in Frames, d \in Steps, fc \in FingerCounts :
       Idle_update_sample(frame, tick + d, fc)
  \/ \E frame \in Frames, d \in Steps : Filter_update_count(frame, tick + d)
  \/ \E frame \in Frames, d \in Steps, who \in {"masker", "filter"} :
       Filter_update_raise(frame, tick + d, who)
  \/ \E frame \in Frames, d \in Steps : Filter_update_apply(frame, tick + d)
  \/ \E frame \in Frames, d \in Steps : ShowPic_update(frame, tick + d)

Spec == Init /\ [][Next]_vars

(***************************************************************************)
(* Properties                                                              *)
(***************************************************************************)
\* a step in which the loop dispatches a frame to the active state's update
UpdateStep == pc = "get" /\ pc' # "get"

\* a step that is a sampled Idle update
SampleStep == UpdateStep /\ state = "Idle" /\ last'.sampled

\* the controller has left Startup and its loop is alive
Alive == pc \in {"test", "get"}

\* C1: after any sample delivered to an Idle state the capture-intent
\* accumulator is not below 0 (a decrement is floored at 0).
C1_NeverNegative == ~FLt(take_pic_cnt, FZero)

\* C2: a sampled Idle update that finds the accumulator above 0 and counts two
\* fingers neither advances the carousel nor changes the filter-name label.
C2_NoRotationWhileCapturing ==
  [][(SampleStep /\ FLt(FZero, take_pic_cnt) /\ last'.fc = 2)
       => (filters' = filters
           /\ ui'.texts["filter_name"] = ui.texts["filter_name"])]_vars

\* C3: Filter is entered only from Idle, only by a sampled update that leaves
\* the accumulator at 1.0 or more, and an Idle state never stays active with an
\* accumulator of 1.0 or more.
C3_TriggerAtOne ==
  /\ [](state = "Idle" => FLt(take_pic_cnt, F1_0))
  /\ [][(state' = "Filter" /\ state # "Filter")
          => (SampleStep /\ FLe(F1_0, take_pic_cnt'))]_vars

C3_Witness ==
  state = "Filter" /\ last.sampled /\ FLe(F1_0, take_pic_cnt) /\ others > 0

\* C4: an Idle instance that has only counted five fingers is still active
\* after 19 samples and is replaced by Filter at the 20th; no Idle instance
\* reaches Filter with fewer than 20 samples.
C4_TwentySamples ==
  /\ (state = "Idle" /\ others = 0) => nSamples <= 19
  /\ state \in {"Filter", "ShowPic"} => nSamples >= 20
  /\ (state \in {"Filter", "ShowPic"} /\ others = 0) => nSamples = 20

C4_Witness ==
  state = "Filter" /\ last.sampled /\ nSamples = 20 /\ others = 0

\* C5: the carousel advances only in a sampled Idle update that counts two
\* fingers at or after the cooldown deadline; the advance arms the cooldown at
\* tick + 1.5 s; any two advances of the run are at least 1.5 s apart.
C5_AdvanceCooldown ==
  [][/\ filters' # filters => (UpdateStep /\ last'.rotated)
     /\ (UpdateStep /\ last'.rotated)
          => /\ SampleStep
             /\ last'.fc = 2
             /\ filters' = next_filter(filters)
             /\ tick' >= change_filter_time
             /\ change_filter_time' = tick' + RotateCooldown
             /\ lastAdvance >= 0 => tick' - lastAdvance >= RotateCooldown]_vars

\* the second advance is the first sample of a re-entered Idle state
C5_Witness ==
  /\ state = "Idle" /\ last.rotated /\ advances = 2
  /\ nSamples = 1 /\ entered > StartTick + CountdownTime + ShowImageTime

\* C6: a Filter instance entered at T calls the pipeline on no update before
\* T + 4 s and on the first update at or after it, with that update's frame;
\* the same update enters ShowPic, so the pipeline is called once per instance.
C6_PipelineOnce ==
  /\ [](applied <= 1)
  /\ []((state = "Filter" /\ Alive)
          => (applied = 0 /\ countdown_time = entered + CountdownTime
              /\ tick < countdown_time))
  /\ [][(UpdateStep /\ state = "Filter")
          => IF tick' < entered + CountdownTime
             THEN /\ applied' = 0 /\ ~last'.applied
                  /\ filtered_frame' = filtered_frame
                  /\ state' = "Filter"
             ELSE /\ applied' = 1
                  /\ last'.failed # "no" => pc' = "dead"
                  /\ last'.failed = "no"
                       => /\ last'.applied
                          /\ filtered_frame' = apply_filter(last'.frame)
                          /\ state' = "ShowPic"]_vars

\* the pipeline has run on the update at exactly T + 4 s
C6_Witness ==
  /\ state = "ShowPic" /\ last.applied /\ applied = 1
  /\ tick = countdown_time
  /\ filtered_frame = apply_filter(last.frame)

\* C7: a ShowPic instance entered at T stays active on every update before
\* T + 10 s and is replaced by Idle on the first update at or after T + 10 s.
C7_ShowPicDeadline ==
  [][(UpdateStep /\ state = "ShowPic")
       => IF tick' < entered + ShowImageTime THEN state' = "ShowPic"
                                             ELSE state' = "Idle"]_vars

\* the element names and the commands of Startup.enter
SetupNames == {"help_1", "help_2", "countdown", "filter_name", "bar"}

IsCreate(c) == c[1] \in {"create_text", "create_progressbar"}

\* C8: the first update of Startup enters Idle; Startup.enter runs once in the
\* whole run, no later update issues a create command, and no state returns
\* to Startup.
C8_StartupOnce ==
  /\ [](setups = 1)
  /\ [](state = "Startup"
          => /\ last.state = "none"
             /\ ui.elements = SetupNames
             /\ Len(ui.log) = 9
             /\ Cardinality({i \in DOMAIN ui.log : IsCreate(ui.log[i])}) = 5)
  /\ [][(UpdateStep /\ state = "Startup") => state' = "Idle"]_vars
  /\ [][state' = "Startup" => state = "Startup"]_vars
  /\ [][UpdateStep => \A i \in DOMAIN ui'.log : ~IsCreate(ui'.log[i])]_vars

C8_Witness ==
  state = "Idle" /\ last.state = "Startup" /\ setups = 1 /\ ui.elements = SetupNames

\* C9: an update in which the classifier, the masker or the filter fails
\* leaves the state and its counters and deadlines as they were, and the loop
\* goes on to its next iteration.
C9_FailureNonFatal ==
  [][(UpdateStep /\ last'.failed # "no") => (ctl' = ctl /\ pc' = "test")]_vars

\* C10: no frame is dispatched to update once stop() has been called.
C10_NoDispatchAfterStop == [][UpdateStep => ~stopped]_vars

\* C10 as amended: the flag is tested before the blocking get, so a frame is
\* dispatched only in an iteration whose test found the flag clear, and at most
\* one frame is dispatched after stop() has been called.
C10_AtMostOneAfterStop ==
  /\ [](afterStop <= 1)
  /\ [](afterStop = 1 => pc # "get")
  /\ [][(pc = "test" /\ stopped) => pc' = "done"]_vars
  /\ [][(pc' = "get" /\ pc # "get") => (pc = "test" /\ ~stopped)]_vars

\* a frame has been dispatched although stop() had been called
C10_Witness == afterStop = 1 /\ stopped /\ last.state = "Idle" /\ last.sampled

(***************************************************************************)
(* The loop under fair scheduling                                          *)
(***************************************************************************)
\* the inputs of the fair runs: one frame value, a hand that shows five fingers
FairFrames == {<<"raw", 1>>}
FairCounts == {5}

\* one frame taken from the channel and handed to the active state's update
Update ==
  \/ \E frame \in FairFrames, d \in Steps : Startup_update(frame, tick + d)
  \/ \E frame \in FairFrames, d \in Steps : Idle_update_idle(frame, tick + d)
  \/ \E frame \in FairFrames, d \in Steps : Idle_update_raise(frame, tick + d)
  \/ \E frame \in FairFrames, d \in Steps, fc \in FairCounts :
       Idle_update_sample(frame, tick + d, fc)
  \/ \E frame \in FairFrames, d \in Steps : Filter_update_count(frame, tick + d)
  \/ \E frame \in FairFrames, d \in Steps, who \in {"masker", "filter"} :
       Filter_update_raise(frame, tick + d, who)
  \/ \E frame \in FairFrames, d \in Steps : Filter_update_apply(frame, tick + d)
  \/ \E frame \in FairFrames, d \in Steps : ShowPic_update(frame, tick + d)

FairNext == LoopTest \/ Stop \/ Update

\* the thread running process is scheduled: the while condition is evaluated;
\* the channel yields a frame to a pending get(), and update returns or raises
FairSpec == Init /\ [][FairNext]_vars /\ WF_vars(LoopTest) /\ WF_vars(Update)

\* the thread running process has ended
Halted == pc \in {"done", "dead"}

\* C11: once stop() has been called the loop ends, after at most one further
\* frame; stop() changes the flag only, so an update it overlaps with is not
\* interrupted, and a frame dispatched after stop() is processed and handed
\* back to the while condition, which then ends the loop.
C11_StopTerminates ==
  /\ stopped ~> Halted
  /\ [](afterStop <= 1)
  /\ [][(stopped' # stopped)
          => (pc' = pc /\ ctl' = ctl /\ ui' = ui /\ tick' = tick
              /\ out_frame' = out_frame)]_vars
  /\ [][(UpdateStep /\ stopped)
          => (pc' \in {"test", "dead"} /\ last'.state = state /\ tick' >= tick)]_vars
  /\ [][(pc = "test" /\ stopped) => pc' = "done"]_vars

\* stop() came while the loop was blocked in get(); the frame that arrived
\* took Filter to ShowPic, and the loop has ended
C11_Witness ==
  /\ pc = "done" /\ stopped /\ afterStop = 1
  /\ last.state = "Filter" /\ last.applied /\ state = "ShowPic"

(***************************************************************************)
(* The UI registry on its own: any caller, any names.  The caller catches  *)
(* a KeyError, so every command starts from a registry with no error       *)
(* pending.  Here last records the command: its name and the names given.  *)
(***************************************************************************)
\* how many names one show or hide is given at most
MaxNames == 2

UINames == {"countdown", "bar"}

UINameLists == UNION {[1..n -> UINames] : n \in 0..MaxNames}

\* the controller's variables, which the registry does not touch
core_vars ==
  <<pc, stopped, tick, out_frame, filtered_frame, state, filters, take_pic_cnt,
    change_filter_time, finger_frame_interval, countdown_time, show_image_time,
    entered, nSamples, others, lastAdvance, advances, applied, setups, afterStop>>

Caught(u) == [u EXCEPT !.err = FALSE, !.log = <<>>]

(* UI.__init__: no element yet *)
UIInit ==
  /\ ui = UI_new
  /\ last = [op |-> "new", names |-> <<>>]
  /\ pc = "test" /\ stopped = FALSE /\ tick = StartTick
  /\ out_frame = NoFrame /\ filtered_frame = NoFrame
  /\ state = "Startup" /\ filters = 0
  /\ take_pic_cnt = FZero /\ change_filter_time = 0 /\ finger_frame_interval = 0
  /\ countdown_time = 0 /\ show_image_time = 0
  /\ entered = StartTick /\ nSamples = 0 /\ others = 0 /\ lastAdvance = -1
  /\ advances = 0 /\ applied = 0 /\ setups = 0 /\ afterStop = 0

Call_create_text(name) ==
  /\ ui' = UI_create_text(Caught(ui), name)
  /\ last' = [op |-> "create_text", names |-> <<name>>]
  /\ UNCHANGED core_vars

Call_create_progressbar(name) ==
  /\ ui' = UI_create_progressbar(Caught(ui), name)
  /\ last' = [op |-> "create_progressbar", names |-> <<name>>]
  /\ UNCHANGED core_vars

Call_set_text(name, text) ==
  /\ ui' = UI_set_text(Caught(ui), name, text)
  /\ last' = [op |-> "set_text", names |-> <<name>>]
  /\ UNCHANGED core_vars

Call_set_prog(name, value) ==
  /\ ui' = UI_set_prog(Caught(ui), name, value)
  /\ last' = [op |-> "set_prog", names |-> <<name>>]
  /\ UNCHANGED core_vars

Call_show(names) ==
  /\ ui' = UI_show(Caught(ui), names)
  /\ last' = [op |-> "show", names |-> names]
  /\ UNCHANGED core_vars

Call_hide(names) ==
  /\ ui' = UI_hide(Caught(ui), names)
  /\ last' = [op |-> "hide", names |-> names]
  /\ UNCHANGED core_vars

UINext ==
  \/ \E name \in UINames : Call_create_text(name)
  \/ \E name \in UINames : Call_create_progressbar(name)
  \/ \E name \in UINames : Call_set_text(name, "3")
  \/ \E name \in UINames, value \in {F0_05, FNeg(F0_05)} : Call_set_prog(name, value)
  \/ \E names \in UINameLists : Call_show(names)
  \/ \E names \in UINameLists : Call_hide(names)

UISpec == UIInit /\ [][UINext]_vars

\* the commands that address elements by name
ByName == {"set_text", "set_prog", "show", "hide"}

\* C12: set_text, set_prog, show and hide raise KeyError whenever one of the
\* names they are given has not been created, and only then; a command that
\* raises leaves the registry's known names as they were.
C12_UnknownNameRaises ==
  [][(last'.op \in ByName)
       => /\ ui'.err <=> (\E i \in DOMAIN last'.names : last'.names[i] \notin ui.elements)
          /\ ui'.elements = ui.elements]_vars

\* hide was given a created name, then one never created: it has hidden the
\* first and raised at the second
C12_Witness ==
  /\ last.op = "hide" /\ last.names = <<"bar", "countdown">>
  /\ ui.elements = {"bar"} /\ ui.err /\ ~ui.visible["bar"]

(***************************************************************************)
(* The first moments of Idle with frames a tenth of a second apart, so     *)
(* that a frame can arrive exactly at the sample deadline                  *)
(***************************************************************************)
FineSteps == {0, 1, 2}

\* the runs with fine steps end here
FineMaxTick == 8

FineNext ==
  \/ LoopTest
  \/ Stop
  \/ \E frame \in Frames, d \in FineSteps :
       tick + d <= FineMaxTick /\ Startup_update(frame, tick + d)
  \/ \E frame \in Frames, d \in FineSteps :
       tick + d <= FineMaxTick /\ Idle_update_idle(frame, tick + d)
  \/ \E frame \in Frames, d \in FineSteps :
       tick + d <= FineMaxTick /\ Idle_update_raise(frame, tick + d)
  \/ \E frame \in Frames, d \in FineSteps, fc \in FingerCounts :
       tick + d <= FineMaxTick /\ Idle_update_sample(frame, tick + d, fc)

FineSpec == Init /\ [][FineNext]_vars

\* the update has called the classifier, which returned or raised
ClassifierCalled(ev) == ev.sampled \/ ev.failed = "classifier"

\* C13: an Idle update calls the classifier, and re-arms the sample deadline
\* at tick + 0.1 s when the call returns, exactly when its tick is at or after
\* the sample deadline, a tick equal to the deadline included.
C13_SampleAtDeadline ==
  [][(UpdateStep /\ state = "Idle")
       => /\ ClassifierCalled(last') <=> tick' >= finger_frame_interval
          /\ last'.sampled => finger_frame_interval' = tick' + SampleInterval]_vars

\* what the UI shows: everything but the error flag and the command log
Shown(u) == <<u.elements, u.texts, u.visible, u.scale>>

\* C14: an Idle update that does not sample, as every Idle update with a tick
\* below the sample deadline is, leaves the accumulator, the rotation cooldown,
\* the sample deadline, the current filter, the label, the progress value, the
\* filtered frame and the active state unchanged, issues no UI command, and
\* publishes the incoming frame as the display frame.
C14_UnsampledIdleUpdate ==
  [][(UpdateStep /\ state = "Idle")
       => /\ tick' < finger_frame_interval => ~ClassifierCalled(last')
          /\ ~ClassifierCalled(last')
               => /\ ctl' = ctl
                  /\ Shown(ui') = Shown(ui)
                  /\ ui'.log = <<>> /\ ~ui'.err
                  /\ out_frame' = last'.frame
                  /\ pc' = "test"]_vars

\* an unsampled update has published the other frame while the accumulator
\* was above 0
C14_Witness ==
  /\ state = "Idle" /\ last.state = "Idle" /\ ~ClassifierCalled(last)
  /\ FLt(FZero, take_pic_cnt) /\ tick < finger_frame_interval
  /\ out_frame = <<"raw", 2>> /\ last.frame = out_frame

\* C15: every update processed in ShowPic publishes the filtered frame, which
\* is the result of the pipeline run by the Filter update that entered this
\* ShowPic, and never the incoming frame; only Filter's deadline-expiry update
\* writes the filtered frame.
C15_ShowPicPublishesFiltered ==
  /\ [][(UpdateStep /\ state = "ShowPic")
          => (out_frame' = filtered_frame /\ out_frame' \notin Frames)]_vars
  /\ [][(state' = "ShowPic" /\ state # "ShowPic")
          => /\ UpdateStep /\ state = "Filter" /\ last'.applied
             /\ filtered_frame' = current_filter(filters, masked_frame(last'.frame))]_vars
  /\ [][(filtered_frame' # filtered_frame)
          => (UpdateStep /\ state = "Filter" /\ last'.applied
              /\ ~countdown_running(countdown_time, tick'))]_vars
  /\ [][(UpdateStep /\ ~(state = "Filter" /\ last'.applied))
          => filtered_frame' = filtered_frame]_vars

\* a picture taken of frame 2 with the carousel's second filter is on display
\* after an update processed in ShowPic
C15_Witness ==
  /\ state = "ShowPic" /\ last.state = "ShowPic"
  /\ out_frame = filtered_frame
  /\ filtered_frame = current_filter(filters, masked_frame(<<"raw", 2>>))
  /\ filters = 1

\* C16: each entry into Idle, from Startup or from ShowPic, starts with the
\* accumulator at 0, the rotation cooldown and the sample deadline expired and
\* the progress bar at 0; each entry into Filter and into ShowPic arms its
\* deadline from the tick of the entering update.
C16_FreshState ==
  /\ [][(state' = "Idle" /\ state # "Idle")
          => /\ UpdateStep /\ state \in {"Startup", "ShowPic"}
             /\ take_pic_cnt' = FZero
             /\ change_filter_time' - tick' <= 0
             /\ sample_due(finger_frame_interval', tick')
             /\ ui'.scale["bar"] = FZero
             /\ ui'.visible["bar"]]_vars
  /\ [][(state' = "Filter" /\ state # "Filter")
          => (UpdateStep /\ countdown_time' = tick' + CountdownTime)]_vars
  /\ [][(state' = "ShowPic" /\ state # "ShowPic")
          => (UpdateStep /\ show_image_time' = tick' + ShowImageTime)]_vars

\* Idle has been entered again after a picture, whose capture had left the
\* progress bar full and the carousel on its second filter
C16_Witness ==
  /\ state = "Idle" /\ last.state = "ShowPic" /\ filters = 1
  /\ take_pic_cnt = FZero /\ ui.scale["bar"] = FZero
  /\ change_filter_time = 0 /\ finger_frame_interval = 0
  /\ countdown_time > 0 /\ show_image_time = countdown_time + ShowImageTime

(***************************************************************************)
(* The loop when frames keep arriving and time moves on                    *)
(***************************************************************************)
\* the steps by which time.time() moves on
LaterSteps == Steps \ {0}

\* a frame that arrives later than the one before
Advance ==
  \/ \E frame \in FairFrames, d \in LaterSteps : Startup_update(frame, tick + d)
  \/ \E frame \in FairFrames, d \in LaterSteps : Idle_update_idle(frame, tick + d)
  \/ \E frame \in FairFrames, d \in LaterSteps : Idle_update_raise(frame, tick + d)
  \/ \E frame \in FairFrames, d \in LaterSteps, fc \in FairCounts :
       Idle_update_sample(frame, tick + d, fc)
  \/ \E frame \in FairFrames, d \in LaterSteps : Filter_update_count(frame, tick + d)
  \/ \E frame \in FairFrames, d \in LaterSteps, who \in {"masker", "filter"} :
       Filter_update_raise(frame, tick + d, who)
  \/ \E frame \in FairFrames, d \in LaterSteps : Filter_update_apply(frame, tick + d)
  \/ \E frame \in FairFrames, d \in LaterSteps : ShowPic_update(frame, tick + d)

\* FairSpec, and time.time() does not stand still for ever: of the frames
\* that keep arriving, some arrive at a later tick, up to the end of the run
TimedSpec == FairSpec /\ SF_vars(Advance)

Transitions ==
  {<<"Startup", "Idle">>, <<"Idle", "Filter">>, <<"Filter", "ShowPic">>,
   <<"ShowPic", "Idle">>}

\* C17: unless the loop ends (stop() was called, or a collaborator raised), a
\* Filter is followed by ShowPic and a ShowPic by Idle, for every state whose
\* deadline the run's ticks can pass; the active state changes only from
\* Startup to Idle, Idle to Filter, Filter to ShowPic and ShowPic to Idle.
C17_TimeBoxedStatesEnd ==
  /\ (state = "Filter" /\ entered + CountdownTime <= MaxTick)
       ~> (state = "ShowPic" \/ Halted)
  /\ (state = "ShowPic" /\ \E d \in LaterSteps : entered + ShowImageTime + d <= MaxTick)
       ~> (state = "Idle" \/ Halted)
  /\ [][state' # state => (UpdateStep /\ <<state, state'>> \in Transitions)]_vars

\* a whole cycle has been run with the loop alive and no stop() called
C17_Witness ==
  /\ state = "Idle" /\ last.state = "ShowPic" /\ applied = 1
  /\ ~stopped /\ pc = "test" /\ tick > show_image_time

\* the number a countdown label shows
LabelValue(text) ==
  IF text = "0" THEN 0 ELSE IF text = "1" THEN 1 ELSE IF text = "2" THEN 2
  ELSE IF text = "3" THEN 3 ELSE 4

\* C18: while a Filter entered at T is active the countdown label is the entry
\* value 3 or the whole seconds of (T + 4 s) - tick set by the latest update;
\* it is never above 3 and no update makes it larger than it was.
C18_CountdownLabel ==
  /\ []((state = "Filter" /\ Alive)
          => /\ LabelValue(ui.texts["countdown"]) <= 3
             /\ ui.texts["countdown"]
                  = IF last.state = "Filter"
                    THEN IntFormat(WholeSeconds(entered + CountdownTime - tick))
                    ELSE "3")
  /\ [][(UpdateStep /\ state = "Filter")
          => LabelValue(ui'.texts["countdown"]) <= LabelValue(ui.texts["countdown"])]_vars

\* the UI commands the entry hook of state s issues
HookLog(s, u) ==
  IF s = "Idle" THEN Idle_enter(Begin(u)).log
  ELSE IF s = "Filter" THEN Filter_enter(Begin(u)).log
  ELSE IF s = "ShowPic" THEN ShowPic_enter(Begin(u)).log
  ELSE Startup_enter(Begin(u)).log

IsSuffix(a, b) ==
  Len(a) <= Len(b) /\ SubSeq(b, Len(b) - Len(a) + 1, Len(b)) = a

\* C19: in an update that replaces the active state, the UI commands of the
\* new state's entry hook are the last commands of the update: the replaced
\* state issues none after them.
C19_EntryHookLast ==
  [][(UpdateStep /\ state' # state) => IsSuffix(HookLog(state', ui), ui'.log)]_vars

\* C20: every UI command a state issues names an element that Startup.enter
\* has created, so the registry never raises its KeyError: the thread ends by
\* an exception only when a collaborator has raised.
C20_NoKeyError ==
  /\ ~ui.err
  /\ ui.elements = SetupNames
  /\ \A i \in DOMAIN ui.log : ui.log[i][2] \in SetupNames
  /\ pc = "dead" => last.failed # "no"

\* every state has issued its commands: a picture was taken after a change of
\* filter, and Idle has been entered again
C20_Witness ==
  /\ state = "Idle" /\ last.state = "ShowPic" /\ advances >= 1
  /\ Len(ui.log) = 5 /\ ui.log[5] = <<"set_prog", "bar">>
  /\ ~ui.visible["countdown"] /\ ui.visible["bar"]
  /\ ui.texts["filter_name"] = FilterLabel(1)

====
